---- MODULE Spec2Model ----
(***************************************************************************)
(* A model of the classical computer-vision finger counter                 *)
(* (improved_hand_detector.py: ImprovedHandDetector) and of its driver     *)
(* loop (opencv_main.py), of the simpler OpenCVHandDetector                *)
(* (opencv_hand_detector.py) and of the landmark finger counter (utils.py).*)
(*                                                                         *)
(* A contour is the ordered point list cv2.findContours produces, together *)
(* with the answer cv2.convexityDefects gives for it.  The OpenCV          *)
(* primitives the detector calls (contourArea, moments, boundingRect,      *)
(* convexHull) are computed here from the points in integer arithmetic;    *)
(* distances are compared by their squares, which orders them as math.dist *)
(* does.                                                                   *)
(***************************************************************************)
EXTENDS Integers, Sequences, FiniteSets, TLC

VARIABLES
    count_history,   \* self.count_history: the rolling buffer of raw counts
    history_index,   \* self.history_index: 0-based write cursor
    finger_count,    \* self.finger_count
    finger_tips,     \* self.finger_tips: sequence of points
    hand_center,     \* self.hand_center: None or <<cx, cy>>
    roi,             \* self.roi: None or <<x, y, w, h>>
    hand_contour,    \* self.hand_contour: None or a contour
    bg_frames,       \* frames the current background subtractor has learned
    op,              \* the operation that ran last
    raw_count,       \* the count last returned by _find_fingertips / fed to _stabilize_count
    ret,             \* the value last returned by _stabilize_count
    calls,           \* number of _stabilize_count calls so far (saturates at MaxCalls)
    log,             \* the raw counts fed to _stabilize_count, oldest first, last history_length kept
    run,             \* how many of the latest consecutive calls fed the same count (saturates)
    arg,             \* the argument of the last call: of the function under test (SpecPure,
                     \* SpecUtils), or whether detect_hand's frame held a contour of area
                     \* above 5000
    ocv,             \* the attributes of the OpenCVHandDetector
    out              \* None or the value the last count_fingers / get_finger_status
                     \* call returned

vars == <<count_history, history_index, finger_count, finger_tips, hand_center,
          roi, hand_contour, bg_frames, op, raw_count, ret, calls, log, run, arg,
          ocv, out>>

----------------------------------------------------------------------------
(* Python's None and a present value *)
None == [some |-> FALSE]
Some(v) == [some |-> TRUE, val |-> v]

----------------------------------------------------------------------------
(* Program constants *)

\* self.history_length = 5
history_length == 5
\* _get_largest_contour(self, mask, min_area=5000)
min_area == 5000
\* "Cap at 5 fingers maximum": if len(fingertips) > 5
max_fingers == 5
\* cap.set(cv2.CAP_PROP_FRAME_HEIGHT, 480), cap.set(cv2.CAP_PROP_FRAME_WIDTH, 640)
FRAME_HEIGHT == 480
FRAME_WIDTH == 640
\* frame.shape[:2] of the frames the driver feeds
frame_shape == <<FRAME_HEIGHT, FRAME_WIDTH>>

(* Bounds of the model *)

\* longest contour (number of points) drawn as an input
MaxContourPts == 7
\* most contours one mask holds
MaxContours == 2
\* bg_frames saturates here
MaxBgFrames == 1
\* calls saturates here
MaxCalls == 7
MaxCoord == 1

----------------------------------------------------------------------------
(* Integer helpers *)

Abs(n) == IF n < 0 THEN -n ELSE n

Range(s) == {s[i] : i \in 1..Len(s)}

RECURSIVE SortedSeq(_)
\* the elements of a finite set of integers, ascending
SortedSeq(S) ==
    IF S = {} THEN <<>>
    ELSE LET m == CHOOSE x \in S : \A y \in S : x <= y
         IN <<m>> \o SortedSeq(S \ {m})

RECURSIVE FirstN(_, _)
\* the sequence f[1], ..., f[n], built element by element
FirstN(f, n) == IF n = 0 THEN <<>> ELSE Append(FirstN(f, n - 1), f[n])

\* math.dist(p, q) squared
Dist2(p, q) == (p[1] - q[1]) * (p[1] - q[1]) + (p[2] - q[2]) * (p[2] - q[2])

Cross(o, a, b) == (a[1] - o[1]) * (b[2] - o[2]) - (a[2] - o[2]) * (b[1] - o[1])

Dot(o, a, b) == (a[1] - o[1]) * (b[1] - o[1]) + (a[2] - o[2]) * (b[2] - o[2])

----------------------------------------------------------------------------
(* The OpenCV primitives, on a point sequence pts (a closed polygon) *)

Next1(pts, i) == IF i = Len(pts) THEN 1 ELSE i + 1

RECURSIVE SumTo(_, _)
\* f[1] + ... + f[n]
SumTo(f, n) == IF n = 0 THEN 0 ELSE f[n] + SumTo(f, n - 1)

\* Green's formula terms x_i * y_(i+1) - x_(i+1) * y_i
GreenTerm(pts, i) ==
    pts[i][1] * pts[Next1(pts, i)][2] - pts[Next1(pts, i)][1] * pts[i][2]

\* a00 of cv2.moments: twice the signed area
A00(pts) == SumTo([i \in 1..Len(pts) |-> GreenTerm(pts, i)], Len(pts))
\* a10: six times the signed first moment in x
A10(pts) ==
    SumTo([i \in 1..Len(pts) |->
              GreenTerm(pts, i) * (pts[i][1] + pts[Next1(pts, i)][1])], Len(pts))
\* a01: six times the signed first moment in y
A01(pts) ==
    SumTo([i \in 1..Len(pts) |->
              GreenTerm(pts, i) * (pts[i][2] + pts[Next1(pts, i)][2])], Len(pts))

\* cv2.contourArea(cnt), doubled to stay in the integers
contourArea2(pts) == Abs(A00(pts))

\* cv2.boundingRect(contour): x, y, w, h
boundingRect(pts) ==
    LET xs == {pts[i][1] : i \in 1..Len(pts)}
        ys == {pts[i][2] : i \in 1..Len(pts)}
        x0 == CHOOSE v \in xs : \A u \in xs : v <= u
        x1 == CHOOSE v \in xs : \A u \in xs : v >= u
        y0 == CHOOSE v \in ys : \A u \in ys : v <= u
        y1 == CHOOSE v \in ys : \A u \in ys : v >= u
    IN <<x0, y0, x1 - x0 + 1, y1 - y0 + 1>>

\* pts[i] is a vertex of the convex hull: a supporting line through it and
\* another point has every point on one side, pts[i] ending the points on it
IsHullVertex(pts, i) ==
    /\ \A j \in 1..(i - 1) : pts[j] # pts[i]
    /\ \E j \in 1..Len(pts) :
        /\ pts[j] # pts[i]
        /\ \A k \in 1..Len(pts) :
            LET cr == Cross(pts[i], pts[j], pts[k])
            IN \/ cr > 0
               \/ cr = 0 /\ Dot(pts[i], pts[j], pts[k]) >= 0

\* cv2.convexHull(contour, returnPoints=False): indices of the hull vertices
convexHullIdx(pts) == SortedSeq({i \in 1..Len(pts) : IsHullVertex(pts, i)})

\* cv2.convexHull(contour, returnPoints=True)
convexHullPoints(pts) ==
    LET idx == convexHullIdx(pts)
    IN FirstN([k \in 1..Len(idx) |-> pts[idx[k]]], Len(idx))

----------------------------------------------------------------------------
(* ImprovedHandDetector: the pure parts *)

\* LargeContours that also keeps a contour of area exactly min_area
LargeContoursAtLeast(contours, min_area_) ==
    SelectSeq(contours, LAMBDA cnt : contourArea2(cnt.pts) >= 2 * min_area_)

\* cv2.findContours(mask, RETR_EXTERNAL, CHAIN_APPROX_SIMPLE) yields the
\* sequence `contours`; large_contours keeps those with contourArea > min_area
LargeContours(contours, min_area_) ==
    SelectSeq(contours, LAMBDA cnt : contourArea2(cnt.pts) > 2 * min_area_)

\* MaxByArea that takes the first contour whatever its area
FirstContour(cs) == cs[1]

\* max(large_contours, key=cv2.contourArea): the first one of maximal area
MaxByArea(cs) ==
    LET i == CHOOSE i \in 1..Len(cs) :
                 /\ \A j \in 1..Len(cs) :
                        contourArea2(cs[j].pts) <= contourArea2(cs[i].pts)
                 /\ \A j \in 1..(i - 1) :
                        contourArea2(cs[j].pts) < contourArea2(cs[i].pts)
    IN cs[i]

\* GetLargestContour without the area filter: the largest contour of any
\* size
GetLargestContourUnfiltered(contours, min_area_) ==
    IF contours = <<>> THEN None ELSE Some(MaxByArea(contours))

\* _get_largest_contour(self, mask, min_area=5000)
GetLargestContour(contours, min_area_) ==
    LET large_contours == LargeContours(contours, min_area_)
    IN IF large_contours = <<>> THEN None ELSE Some(MaxByArea(large_contours))

\* GetDefectsAndHull with the point minimum off by one (< 4)
GetDefectsAndHullMin4(contour) ==
    IF ~contour.some \/ Len(contour.val.pts) < 4
    THEN [defects |-> None, hull |-> None]
    ELSE LET hull == convexHullIdx(contour.val.pts)
         IN IF contour.val.cvDefects.raises
            THEN [defects |-> None, hull |-> Some(hull)]
            ELSE [defects |-> contour.val.cvDefects.result, hull |-> Some(hull)]

\* _get_defects_and_hull(self, contour)
GetDefectsAndHull(contour) ==
    IF ~contour.some \/ Len(contour.val.pts) < 5
    THEN [defects |-> None, hull |-> None]
    ELSE LET hull == convexHullIdx(contour.val.pts)
         IN IF contour.val.cvDefects.raises
            THEN [defects |-> None, hull |-> Some(hull)]
            ELSE [defects |-> contour.val.cvDefects.result, hull |-> Some(hull)]

\* the defect loop of _find_fingertips: a defect is a finger valley when the
\* angle at its far point is below 90 degrees (a^2 + b^2 - c^2 > 0) and its
\* depth d/256.0 exceeds 10; a*b == 0 skips the defect
FingerValleys(pts, defects) ==
    SelectSeq(defects,
        LAMBDA df :
            LET a2 == Dist2(pts[df.f], pts[df.s])
                b2 == Dist2(pts[df.f], pts[df.e])
                c2 == Dist2(pts[df.s], pts[df.e])
            IN /\ a2 # 0 /\ b2 # 0
               /\ a2 + b2 - c2 > 0
               /\ df.d > 2560)

\* distance > min_dist, with min_dist = sqrt(h^2 + w^2) * 0.05
FarEnough(point, center, shape) ==
    400 * Dist2(point, center) > shape[1] * shape[1] + shape[2] * shape[2]

\* the first loop over hull_points: above the centre and far enough
AboveCenterTips(hull_points, center, shape) ==
    SelectSeq(hull_points,
        LAMBDA point : point[2] < center[2] /\ FarEnough(point, center, shape))

\* ThumbCandidates without the "distance > min_dist" test
ThumbCandidatesOffsetOnly(hull_points, center, w, shape) ==
    SelectSeq(hull_points, LAMBDA point : 4 * Abs(point[1] - center[1]) > w)

\* the second loop: abs(point[0] - cx) > w * 0.25, and far enough
ThumbCandidates(hull_points, center, w, shape) ==
    SelectSeq(hull_points,
        LAMBDA point : /\ 4 * Abs(point[1] - center[1]) > w
                       /\ FarEnough(point, center, shape))

RECURSIVE InsertByDist(_, _, _)
\* x placed after every element at least as far from the centre as x is
InsertByDist(x, sorted, center) ==
    IF sorted = <<>> THEN <<x>>
    ELSE IF Dist2(Head(sorted), center) >= Dist2(x, center)
         THEN <<Head(sorted)>> \o InsertByDist(x, Tail(sorted), center)
         ELSE <<x>> \o sorted

RECURSIVE SortByDistDesc(_, _)
\* list.sort(key=lambda x: x[1], reverse=True): stable, farthest first
SortByDistDesc(points, center) ==
    IF points = <<>> THEN <<>>
    ELSE InsertByDist(points[Len(points)],
                      SortByDistDesc(SubSeq(points, 1, Len(points) - 1), center),
                      center)

\* AddThumb without the "not in fingertips" test
AddThumbAlways(fingertips, thumb_candidates, center) ==
    IF thumb_candidates = <<>> THEN fingertips
    ELSE Append(fingertips, SortByDistDesc(thumb_candidates, center)[1])

\* "Add thumb if found": thumb_candidates[0][0] after the sort is appended
\* unless it is already in fingertips
AddThumb(fingertips, thumb_candidates, center) ==
    IF thumb_candidates = <<>> THEN fingertips
    ELSE LET thumb_point == SortByDistDesc(thumb_candidates, center)[1]
         IN IF thumb_point \in Range(fingertips)
            THEN fingertips
            ELSE Append(fingertips, thumb_point)

\* CapFingertips with the cap step left out
CapFingertipsNoCap(fingertips, center) == fingertips

\* "Cap at 5 fingers maximum (choose farthest points if more are found)"
CapFingertips(fingertips, center) ==
    IF Len(fingertips) > max_fingers
    THEN SubSeq(SortByDistDesc(fingertips, center), 1, max_fingers)
    ELSE fingertips

\* int(moments['m10'] / moments['m00']), int(moments['m01'] / moments['m00'])
Centroid(pts) ==
    <<Abs(A10(pts)) \div (3 * Abs(A00(pts))), Abs(A01(pts)) \div (3 * Abs(A00(pts)))>>

\* the fingertip list before the cap, for a contour that passed the guards
Candidates(pts, shape) ==
    LET center == Centroid(pts)
        w == boundingRect(pts)[3]
        hull_points == convexHullPoints(pts)
    IN AddThumb(AboveCenterTips(hull_points, center, shape),
                ThumbCandidates(hull_points, center, w, shape), center)

\* _find_fingertips(self, contour, defects, frame_shape): the returned pair
\* and the values it stores in self.hand_center and self.roi (stored = FALSE
\* when it returns before storing them)
FindFingertips(contour, defects, shape) ==
    IF ~contour.some \/ ~defects.some
    THEN [fingertips |-> <<>>, count |-> 0, stored |-> FALSE]
    ELSE LET pts == contour.val.pts
         IN IF A00(pts) = 0
            THEN [fingertips |-> <<>>, count |-> 0, stored |-> FALSE]
            ELSE LET center == Centroid(pts)
                     finger_valleys == FingerValleys(pts, defects.val)
                     fingertips == CapFingertips(Candidates(pts, shape), center)
                 IN [fingertips |-> fingertips, count |-> Len(fingertips),
                     stored |-> TRUE, hand_center |-> center,
                     roi |-> boundingRect(pts)]

----------------------------------------------------------------------------
(* The count stabilizer *)

\* WriteHistory that ignores the cursor and always writes slot 0
WriteHistorySlot0(history, index, count) == [history EXCEPT ![1] = count]

\* self.count_history[self.history_index] = count
WriteHistory(history, index, count) == [history EXCEPT ![index + 1] = count]

\* AdvanceIndex that stops at the last slot instead of wrapping
AdvanceIndexNoWrap(index) ==
    IF index + 1 < history_length THEN index + 1 ELSE index

\* self.history_index = (self.history_index + 1) % self.history_length
AdvanceIndex(index) == (index + 1) % history_length

RECURSIVE CountItems(_)
\* counts = {}; for c in self.count_history: counts[c] = counts.get(c, 0) + 1
\* counts.items(): <<key, count>> pairs in insertion order
CountItems(history) ==
    IF history = <<>> THEN <<>>
    ELSE LET before == CountItems(SubSeq(history, 1, Len(history) - 1))
             c == history[Len(history)]
         IN IF \E i \in 1..Len(before) : before[i][1] = c
            THEN FirstN([i \in 1..Len(before) |->
                            IF before[i][1] = c THEN <<c, before[i][2] + 1>>
                            ELSE before[i]], Len(before))
            ELSE Append(before, <<c, 1>>)

\* MaxItem that keeps the last item of maximal count (>= for >)
MaxItemLast(items) ==
    LET i == CHOOSE i \in 1..Len(items) :
                 /\ \A j \in 1..Len(items) : items[j][2] <= items[i][2]
                 /\ \A j \in (i + 1)..Len(items) : items[j][2] < items[i][2]
    IN items[i]

\* max(items, key=lambda x: x[1]): the first item whose count is maximal
MaxItem(items) ==
    LET i == CHOOSE i \in 1..Len(items) :
                 /\ \A j \in 1..Len(items) : items[j][2] <= items[i][2]
                 /\ \A j \in 1..(i - 1) : items[j][2] < items[i][2]
    IN items[i]

\* "Return most frequent count"
Mode(history) == MaxItem(CountItems(history))[1]

----------------------------------------------------------------------------
(* Inputs: the contours and masks the operations are applied to *)

\* A hand outline, clockwise on screen (y grows downwards): thumb, finger
\* tips F1..F5 with two valleys between them, and the two wrist corners
Ring ==
    << <<200, 330>>, <<230, 170>>, <<265, 250>>, <<280, 130>>, <<320, 120>>,
       <<340, 240>>, <<360, 130>>, <<410, 170>>, <<400, 400>>, <<240, 400>> >>

\* the points of Ring at the indices S, in Ring's order
SubContour(S) ==
    LET idx == SortedSeq(S)
    IN FirstN([k \in 1..Len(idx) |-> Ring[idx[k]]], Len(idx))

\* a one-pixel-wide stroke: findContours walks it out and back, area zero
ThinPts ==
    << <<200, 200>>, <<240, 160>>, <<280, 200>>, <<320, 160>>, <<280, 200>>,
       <<240, 160>> >>

\* a rectangle of area exactly min_area
BoundaryPts == << <<100, 100>>, <<200, 100>>, <<200, 150>>, <<100, 150>> >>

\* a narrow upright outline of area 7900 with a notch at the top: its two
\* side vertices are 30 pixels from the centre line, less than min_dist
NarrowPts ==
    << <<290, 200>>, <<300, 210>>, <<310, 200>>, <<330, 300>>, <<310, 400>>,
       <<290, 400>>, <<270, 300>> >>

Sign(n) == IF n > 0 THEN 1 ELSE IF n < 0 THEN -1 ELSE 0

\* the segments a-b and c-d cross or touch
SegmentsMeet(a, b, c, d) ==
    /\ Sign(Cross(a, b, c)) * Sign(Cross(a, b, d)) <= 0
    /\ Sign(Cross(c, d, a)) * Sign(Cross(c, d, b)) <= 0

\* the closed polygon pts is the border of a region: no two edges that are
\* not neighbours meet
IsSimple(pts) ==
    \A i, j \in 1..Len(pts) :
        (i < j /\ Next1(pts, i) # j /\ Next1(pts, j) # i)
            => ~SegmentsMeet(pts[i], pts[Next1(pts, i)], pts[j], pts[Next1(pts, j)])

PointLists ==
    {p \in {SubContour(S) : S \in {T \in SUBSET (1..Len(Ring)) :
                                      Cardinality(T) \in 3..MaxContourPts}} :
        IsSimple(p)}
        \cup {ThinPts, BoundaryPts, NarrowPts}

\* the contour indices strictly between hull vertices s and e
Between(pts, s, e) ==
    IF s < e THEN (s + 1)..(e - 1) ELSE ((s + 1)..Len(pts)) \cup (1..(e - 1))

\* one defect per hull edge that contour points leave: start, end, the
\* farthest point from the edge, and the fixed-point depth d
DefectList(pts, d) ==
    LET hull == convexHullIdx(pts)
        off(k) == {i \in Between(pts, hull[k], hull[(k % Len(hull)) + 1]) :
                      Cross(pts[hull[k]], pts[hull[(k % Len(hull)) + 1]], pts[i]) # 0}
        far(k) == CHOOSE i \in off(k) : \A j \in off(k) :
                      LET ci == Abs(Cross(pts[hull[k]], pts[hull[(k % Len(hull)) + 1]], pts[i]))
                          cj == Abs(Cross(pts[hull[k]], pts[hull[(k % Len(hull)) + 1]], pts[j]))
                      IN cj < ci \/ (cj = ci /\ i <= j)
        edges == SortedSeq({k \in 1..Len(hull) : off(k) # {}})
    IN FirstN([n \in 1..Len(edges) |->
                  [s |-> hull[edges[n]], e |-> hull[(edges[n] % Len(hull)) + 1],
                   f |-> far(edges[n]), d |-> d]], Len(edges))

\* what cv2.convexityDefects(contour, hull) can answer: it raises, it finds
\* no defect (None), or it returns the defects with depths below or above
\* the 10-pixel threshold
CvDefectAnswers(pts) ==
    {[raises |-> TRUE, result |-> None]} \cup
    (IF DefectList(pts, 0) = <<>>
     THEN {[raises |-> FALSE, result |-> None]}
     ELSE {[raises |-> FALSE, result |-> Some(DefectList(pts, d))] : d \in {2000, 3000}})

Contours ==
    UNION {{[pts |-> p, cvDefects |-> a] : a \in CvDefectAnswers(p)} : p \in PointLists}

\* the contour with points p for which convexityDefects raises, or answers
\* with depth d where it finds defects
Cnt(p, raises, d) ==
    [pts |-> p,
     cvDefects |-> IF raises THEN [raises |-> TRUE, result |-> None]
                   ELSE IF DefectList(p, 0) = <<>>
                        THEN [raises |-> FALSE, result |-> None]
                        ELSE [raises |-> FALSE, result |-> Some(DefectList(p, d))]]

\* The contours the masks of the detector runs are made of: a noise blob, a
\* blob of area exactly min_area, a four-point outline, a convex outline,
\* an open hand (with and without a failing defect computation), a hand
\* showing two fingers
Noise == Cnt(SubContour({4, 5, 7}), FALSE, 3000)
Boundary == Cnt(BoundaryPts, FALSE, 3000)
Quad == Cnt(SubContour({1, 4, 9, 10}), FALSE, 3000)
ConvexHand == Cnt(SubContour({2, 4, 5, 7, 8}), FALSE, 3000)
OpenHand == Cnt(SubContour({1, 2, 3, 4, 5, 7, 8}), FALSE, 3000)
OpenHandRaise == Cnt(SubContour({1, 2, 3, 4, 5, 7, 8}), TRUE, 3000)
TwoFingers == Cnt(SubContour({4, 6, 7, 9, 10}), FALSE, 2000)

MaskContours == {Noise, Boundary, Quad, ConvexHand, OpenHand, OpenHandRaise, TwoFingers}

\* the contours met in the frames of the detector runs
FrameContours == {Boundary, Quad, OpenHand, OpenHandRaise, TwoFingers}

RECURSIVE SeqsUpTo(_, _)
\* the sequences over S of length at most n
SeqsUpTo(S, n) ==
    IF n = 0 THEN {<<>>}
    ELSE LET shorter == SeqsUpTo(S, n - 1)
         IN shorter \cup {Append(q, x) : q \in shorter, x \in S}

\* a mask is given by its external contours, as cv2.findContours lists them
Masks == SeqsUpTo(MaskContours, MaxContours)

\* a frame is given by the external contours of its combined mask
Frames == SeqsUpTo(FrameContours, MaxContours)

----------------------------------------------------------------------------
(* The detector *)

\* _stabilize_count(self, count): the new buffer, the new cursor, the result
StabilizeCount(history, index, count) ==
    LET written == WriteHistory(history, index, count)
    IN [count_history |-> written, history_index |-> AdvanceIndex(index),
        result |-> Mode(written)]

\* detect_hand, steps 4 and 5 up to the stabilizer: the contour chosen and
\* what _find_fingertips makes of it
Analyse(frame) ==
    LET contour == GetLargestContour(frame, min_area)
        dh == GetDefectsAndHull(contour)
    IN [hand_contour |-> contour,
        tips |-> FindFingertips(contour, dh.defects, frame_shape)]

\* Analyse on every frame of the runs
AnalysisOf == [f \in Frames |-> Analyse(f)]

\* ImprovedHandDetector.__init__
Init ==
    /\ count_history = FirstN([i \in 1..history_length |-> 0], history_length)
    /\ history_index = 0
    /\ finger_count = 0
    /\ finger_tips = <<>>
    /\ hand_center = None
    /\ roi = None
    /\ hand_contour = None
    /\ bg_frames = 0
    /\ op = "init"
    /\ raw_count = 0
    /\ ret = 0
    /\ calls = 0
    /\ log = <<>>
    /\ run = 0
    /\ arg = None
    /\ ocv = [background_set |-> FALSE, background |-> None, bg_frames |-> 0,
              contours |-> <<>>, biggest_contour |-> None, hand_region |-> None,
              fingers |-> <<>>]
    /\ out = None

\* the bookkeeping of one _stabilize_count(count) call
Record(count) ==
    /\ calls' = IF calls < MaxCalls THEN calls + 1 ELSE calls
    /\ log' = LET l == Append(log, count)
              IN IF Len(l) > history_length THEN Tail(l) ELSE l
    /\ run' = IF calls > 0 /\ count = raw_count
              THEN (IF run < history_length THEN run + 1 ELSE run)
              ELSE 1
    /\ raw_count' = count

\* no contour of the frame's mask has an area above 5000
NoQualifyingContour(frame) ==
    \A i \in 1..Len(frame) : contourArea2(frame[i].pts) <= 2 * 5000

\* detect_hand(self, frame, draw): drawing changes only the returned image
DetectHand(frame) ==
    \E a \in {AnalysisOf[frame]} :
       /\ op' = "detect_hand"
       /\ bg_frames' = IF bg_frames < MaxBgFrames THEN bg_frames + 1 ELSE bg_frames
       /\ hand_contour' = a.hand_contour
       /\ arg' = [kind |-> "frame", qualifying |-> ~NoQualifyingContour(frame)]
       /\ UNCHANGED <<ocv, out>>
       /\ IF a.hand_contour.some
          THEN \E st \in {StabilizeCount(count_history, history_index, a.tips.count)} :
                  /\ finger_tips' = a.tips.fingertips
                  /\ hand_center' = IF a.tips.stored THEN Some(a.tips.hand_center)
                                    ELSE hand_center
                  /\ roi' = IF a.tips.stored THEN Some(a.tips.roi) ELSE roi
                  /\ count_history' = st.count_history
                  /\ history_index' = st.history_index
                  /\ finger_count' = st.result
                  /\ ret' = st.result
                  /\ Record(a.tips.count)
          ELSE /\ finger_count' = 0
               /\ finger_tips' = <<>>
               /\ hand_center' = None
               /\ roi' = None
               /\ UNCHANGED <<count_history, history_index, raw_count, ret, calls,
                              log, run>>

\* the attributes of the detector that detect_hand reads and writes, the
\* background model apart
DetectorState ==
    [count_history |-> count_history, history_index |-> history_index,
     finger_count |-> finger_count, finger_tips |-> finger_tips,
     hand_center |-> hand_center, roi |-> roi]

\* detect_hand(self, frame, draw) as a function of the detector's attributes:
\* the attributes after the call on a detector whose attributes are d
DetectStep(d, frame) ==
    LET a == AnalysisOf[frame]
    IN IF a.hand_contour.some
       THEN LET st == StabilizeCount(d.count_history, d.history_index, a.tips.count)
            IN [count_history |-> st.count_history,
                history_index |-> st.history_index,
                finger_count |-> st.result,
                finger_tips |-> a.tips.fingertips,
                hand_center |-> IF a.tips.stored THEN Some(a.tips.hand_center)
                                ELSE d.hand_center,
                roi |-> IF a.tips.stored THEN Some(a.tips.roi) ELSE d.roi]
       ELSE [count_history |-> d.count_history,
             history_index |-> d.history_index,
             finger_count |-> 0,
             finger_tips |-> <<>>,
             hand_center |-> None,
             roi |-> None]

\* the frames on which the pipeline fails: no qualifying contour, or
\* _find_fingertips returns before the moments (fewer than 5 points, failed
\* defect computation) or at the zero-area moment
FailingFrames == {f \in Frames : ~AnalysisOf[f].tips.stored}

\* reset(self): a new background subtractor, nothing else
Reset ==
    /\ op' = "reset"
    /\ bg_frames' = 0
    /\ UNCHANGED <<count_history, history_index, finger_count, finger_tips,
                   hand_center, roi, hand_contour, raw_count, ret, calls, log,
                   run, arg, ocv, out>>

Next ==
    \/ \E frame \in Frames : DetectHand(frame)
    \/ Reset

Spec == Init /\ [][Next]_vars

----------------------------------------------------------------------------
(* The stabilizer on its own: _stabilize_count called with any count 0..5 *)

CallStabilize(count) ==
    \E st \in {StabilizeCount(count_history, history_index, count)} :
        /\ op' = "_stabilize_count"
        /\ count_history' = st.count_history
        /\ history_index' = st.history_index
        /\ ret' = st.result
        /\ Record(count)
        /\ UNCHANGED <<finger_count, finger_tips, hand_center, roi, hand_contour,
                       bg_frames, arg, ocv, out>>

NextStab == \E count \in 0..max_fingers : CallStabilize(count)

SpecStab == Init /\ [][NextStab]_vars

----------------------------------------------------------------------------
(* The pure functions on their own: the argument is drawn at the start *)

InitPure ==
    /\ Init!1 /\ Init!2 /\ Init!3 /\ Init!4 /\ Init!5 /\ Init!6 /\ Init!7
    /\ Init!8 /\ Init!9 /\ Init!10 /\ Init!11 /\ Init!12 /\ Init!13 /\ Init!14
    /\ Init!16 /\ Init!17
    /\ arg \in {[kind |-> "contour", contour |-> Some(c)] : c \in Contours}
           \cup {[kind |-> "contour", contour |-> None]}
           \cup {[kind |-> "mask", contours |-> m] : m \in Masks}

\* defects, hull = self._get_defects_and_hull(contour);
\* self._find_fingertips(contour, defects, frame.shape)
CallFindFingertips ==
    /\ op = "init"
    /\ arg.kind = "contour"
    /\ \E r \in {FindFingertips(arg.contour, GetDefectsAndHull(arg.contour).defects,
                                frame_shape)} :
        /\ finger_tips' = r.fingertips
        /\ raw_count' = r.count
        /\ hand_center' = IF r.stored THEN Some(r.hand_center) ELSE hand_center
        /\ roi' = IF r.stored THEN Some(r.roi) ELSE roi
    /\ op' = "_find_fingertips"
    /\ UNCHANGED <<count_history, history_index, finger_count, hand_contour,
                   bg_frames, ret, calls, log, run, arg, ocv, out>>

\* self._get_largest_contour(mask)
CallGetLargestContour ==
    /\ op = "init"
    /\ arg.kind = "mask"
    /\ hand_contour' = GetLargestContour(arg.contours, min_area)
    /\ op' = "_get_largest_contour"
    /\ UNCHANGED <<count_history, history_index, finger_count, finger_tips,
                   hand_center, roi, bg_frames, raw_count, ret, calls, log, run,
                   arg, ocv, out>>

NextPure == CallFindFingertips \/ CallGetLargestContour

SpecPure == InitPure /\ [][NextPure]_vars

----------------------------------------------------------------------------
(* The OpenCVHandDetector: find_hand, set_background, count_fingers *)

\* the attributes of the ImprovedHandDetector and their bookkeeping
improvedVars ==
    <<count_history, history_index, finger_count, finger_tips, hand_center, roi,
      hand_contour, bg_frames, raw_count, ret, calls, log, run>>

\* the defect loop of find_hand: the far points of the defects whose angle at
\* the far point, arccos((b^2 + c^2 - a^2) / (2 b c)), is below 90 degrees;
\* b c = 0 makes the quotient nan or inf, so the angle is not below 90
FingerValleyPoints(pts, defects) ==
    LET acute == SelectSeq(defects,
                     LAMBDA df :
                         LET a2 == Dist2(pts[df.e], pts[df.s])
                             b2 == Dist2(pts[df.f], pts[df.s])
                             c2 == Dist2(pts[df.e], pts[df.f])
                         IN b2 # 0 /\ c2 # 0 /\ b2 + c2 - a2 > 0)
    IN FirstN([i \in 1..Len(acute) |-> pts[acute[i].f]], Len(acute))

\* self.fingers after the "if draw:" block on the contour: emptied, then
\* filled by the defect loop unless convexityDefects raises or returns None
FingersOf(contour) ==
    IF contour.cvDefects.raises \/ ~contour.cvDefects.result.some
    THEN <<>>
    ELSE FingerValleyPoints(contour.pts, contour.cvDefects.result.val)

\* find_hand up to the "if draw:" block: the contour of largest area, the
\* hand region if that area is above 5000, and what the block would leave
\* in self.fingers
SegmentHand(contours) ==
    LET biggest_contour == IF contours = <<>> THEN None ELSE Some(MaxByArea(contours))
        large == /\ biggest_contour.some
                 /\ contourArea2(biggest_contour.val.pts) > 2 * 5000
    IN [biggest_contour |-> biggest_contour,
        hand_region |-> IF large THEN Some(boundingRect(biggest_contour.val.pts))
                        ELSE None,
        fingers |-> IF large THEN FingersOf(biggest_contour.val) ELSE <<>>]

\* SegmentHand on every frame of the runs
SegmentOf == [f \in Frames |-> SegmentHand(f)]

\* find_hand(self, frame, draw): the attributes after the call
FindHandStep(d, contours, draw) ==
    LET a == SegmentOf[contours]
    IN [background_set |-> d.background_set,
        background |-> d.background,
        bg_frames |-> IF d.bg_frames < MaxBgFrames THEN d.bg_frames + 1
                      ELSE d.bg_frames,
        contours |-> contours,
        biggest_contour |-> a.biggest_contour,
        hand_region |-> a.hand_region,
        fingers |-> IF a.hand_region.some /\ draw THEN a.fingers ELSE d.fingers]

\* OpenCVHandDetector.count_fingers(self)
OcvCountFingers(d) ==
    IF d.biggest_contour.some /\ Len(d.fingers) > 0
    THEN (IF Len(d.fingers) + 1 < 5 THEN Len(d.fingers) + 1 ELSE 5)
    ELSE 0

\* find_hand on a frame whose foreground mask has the given contours
FindHand(frame, draw) ==
    /\ op' = "find_hand"
    /\ ocv' = FindHandStep(ocv, frame, draw)
    /\ UNCHANGED <<improvedVars, arg, out>>

\* set_background(self, frame)
SetBackground(frame) ==
    /\ op' = "set_background"
    /\ ocv' = [ocv EXCEPT !.background = Some(frame), !.background_set = TRUE]
    /\ UNCHANGED <<improvedVars, arg, out>>

\* count_fingers(self)
CountFingers ==
    /\ op' = "count_fingers"
    /\ out' = Some(OcvCountFingers(ocv))
    /\ UNCHANGED <<improvedVars, arg, ocv>>

NextOcv ==
    \/ \E frame \in Frames, draw \in BOOLEAN : FindHand(frame, draw)
    \/ \E frame \in Frames : SetBackground(frame)
    \/ CountFingers

SpecOcv == Init /\ [][NextOcv]_vars

----------------------------------------------------------------------------
(* The landmark finger counter of utils.py, as main.py calls it *)

\* the landmark ids of a hand: enumerate(hand.landmark) of find_positions
LandmarkIds == 0..20

\* the coordinates the two functions read: x of the thumb joint and tip, y of
\* the middle joints and tips of the other four fingers
ReadCoords ==
    {<<3, 1>>, <<4, 1>>, <<6, 2>>, <<8, 2>>, <<10, 2>>, <<12, 2>>, <<14, 2>>,
     <<16, 2>>, <<18, 2>>, <<20, 2>>}

\* what find_positions returns: the empty list, or [id, cx, cy] for the 21
\* landmarks in id order; the coordinates that are read range over
\* 0..MaxCoord, the others are 0
LandmarkLists ==
    {<<>>} \cup
    {FirstN([i \in 1..21 |->
                <<i - 1,
                  IF <<i - 1, 1>> \in ReadCoords THEN c[<<i - 1, 1>>] ELSE 0,
                  IF <<i - 1, 2>> \in ReadCoords THEN c[<<i - 1, 2>>] ELSE 0>>], 21) :
        c \in [ReadCoords -> 0..MaxCoord]}

\* {landmark[0]: (landmark[1], landmark[2]) for landmark in landmarks}: the
\* last entry with an id gives its value
LandmarksDict(landmarks) ==
    [id \in {landmarks[i][1] : i \in 1..Len(landmarks)} |->
        LET last == CHOOSE i \in 1..Len(landmarks) :
                        /\ landmarks[i][1] = id
                        /\ \A j \in (i + 1)..Len(landmarks) : landmarks[j][1] # id
        IN <<landmarks[last][2], landmarks[last][3]>>]

\* count_fingers with the thumb test reversed (< for >)
UtilsCountFingersThumbLeft(landmarks) ==
    IF landmarks = <<>> THEN 0
    ELSE LET landmarks_dict == LandmarksDict(landmarks)
         IN (IF landmarks_dict[4][1] < landmarks_dict[3][1] THEN 1 ELSE 0)
            + (IF landmarks_dict[8][2] < landmarks_dict[6][2] THEN 1 ELSE 0)
            + (IF landmarks_dict[12][2] < landmarks_dict[10][2] THEN 1 ELSE 0)
            + (IF landmarks_dict[16][2] < landmarks_dict[14][2] THEN 1 ELSE 0)
            + (IF landmarks_dict[20][2] < landmarks_dict[18][2] THEN 1 ELSE 0)

\* utils.count_fingers(landmarks)
UtilsCountFingers(landmarks) ==
    IF landmarks = <<>> THEN 0
    ELSE LET landmarks_dict == LandmarksDict(landmarks)
         IN (IF landmarks_dict[4][1] > landmarks_dict[3][1] THEN 1 ELSE 0)
            + (IF landmarks_dict[8][2] < landmarks_dict[6][2] THEN 1 ELSE 0)
            + (IF landmarks_dict[12][2] < landmarks_dict[10][2] THEN 1 ELSE 0)
            + (IF landmarks_dict[16][2] < landmarks_dict[14][2] THEN 1 ELSE 0)
            + (IF landmarks_dict[20][2] < landmarks_dict[18][2] THEN 1 ELSE 0)

\* utils.get_finger_status(landmarks)
GetFingerStatus(landmarks) ==
    IF landmarks = <<>>
    THEN [thumb |-> FALSE, index |-> FALSE, middle |-> FALSE, ring |-> FALSE,
          pinky |-> FALSE]
    ELSE LET landmarks_dict == LandmarksDict(landmarks)
         IN [thumb |-> landmarks_dict[4][1] > landmarks_dict[3][1],
             index |-> landmarks_dict[8][2] < landmarks_dict[6][2],
             middle |-> landmarks_dict[12][2] < landmarks_dict[10][2],
             ring |-> landmarks_dict[16][2] < landmarks_dict[14][2],
             pinky |-> landmarks_dict[20][2] < landmarks_dict[18][2]]

\* landmarks = detector.find_positions(frame)
InitUtils ==
    /\ Init!1 /\ Init!2 /\ Init!3 /\ Init!4 /\ Init!5 /\ Init!6 /\ Init!7
    /\ Init!8 /\ Init!9 /\ Init!10 /\ Init!11 /\ Init!12 /\ Init!13 /\ Init!14
    /\ Init!16 /\ Init!17
    /\ arg \in {[kind |-> "landmarks", landmarks |-> l] : l \in LandmarkLists}

\* finger_count = count_fingers(landmarks)
CallCountFingers ==
    /\ op = "init"
    /\ op' = "utils.count_fingers"
    /\ out' = Some([finger_count |-> UtilsCountFingers(arg.landmarks)])
    /\ UNCHANGED <<improvedVars, arg, ocv>>

\* finger_status = get_finger_status(landmarks)
CallGetFingerStatus ==
    /\ op = "utils.count_fingers"
    /\ op' = "utils.get_finger_status"
    /\ out' = Some([finger_count |-> out.val.finger_count,
                    finger_status |-> GetFingerStatus(arg.landmarks)])
    /\ UNCHANGED <<improvedVars, arg, ocv>>

NextUtils == CallCountFingers \/ CallGetFingerStatus

SpecUtils == InitUtils /\ [][NextUtils]_vars

----------------------------------------------------------------------------
(* Properties *)

\* how often v occurs in the sequence h
Freq(h, v) == Cardinality({i \in 1..Len(h) : h[i] = v})

\* the largest number of occurrences of one value in h
MaxFreq(h) == CHOOSE n \in 0..Len(h) :
                  /\ \E i \in 1..Len(h) : Freq(h, h[i]) = n
                  /\ \A i \in 1..Len(h) : Freq(h, h[i]) <= n

\* the values of h that occur MaxFreq(h) times
Modes(h) == {h[i] : i \in {j \in 1..Len(h) : Freq(h, h[j]) = MaxFreq(h)}}

\* C1: after any sequence of detect_hand and reset calls the reported finger
\* count is an integer in 0..5, and so is every raw count _find_fingertips
\* returned, also for a contour with six or more candidates before the cap.
C1_CountInRange ==
    /\ finger_count \in 0..5
    /\ raw_count \in 0..5
    /\ Len(finger_tips) <= 5
    /\ (op = "detect_hand" /\ hand_contour.some) => raw_count = Len(finger_tips)

\* an open hand with six candidates before the cap was just counted as 5
C1_Witness ==
    /\ op = "detect_hand"
    /\ hand_contour.some
    /\ Len(Candidates(hand_contour.val.pts, frame_shape)) >= 6
    /\ raw_count = 5
    /\ Len(finger_tips) = 5

\* C2: the history is a circular buffer of length 5: after k calls on a
\* fresh detector the cursor is k mod 5, the slots written by the last
\* min(k, 5) calls hold their counts, the other slots still hold 0, and the
\* value returned is one of maximal frequency in the buffer.
C2_CircularBuffer ==
    /\ Len(count_history) = 5
    /\ calls < MaxCalls =>
        /\ history_index = calls % 5
        /\ Len(log) = (IF calls < 5 THEN calls ELSE 5)
        /\ \A n \in 1..calls :
               n > calls - 5 =>
                   count_history[((n - 1) % 5) + 1] = log[Len(log) - (calls - n)]
        /\ \A j \in calls..4 : count_history[j + 1] = 0
    /\ calls > 0 => ret \in Modes(count_history)

\* the sixth call has overwritten slot 0, the oldest, with a new value
C2_Witness ==
    /\ calls = 6
    /\ history_index = 1
    /\ log = <<2, 3, 4, 5, 1>>
    /\ count_history = <<1, 2, 3, 4, 5>>

\* C3: among the values tied for the highest frequency the one returned is
\* the one met first when the buffer is scanned in slot order 0..4.
C3_TieBreakSlotOrder ==
    calls > 0 =>
        LET first == CHOOSE i \in 1..5 :
                         /\ count_history[i] \in Modes(count_history)
                         /\ \A j \in 1..(i - 1) : count_history[j] \notin Modes(count_history)
        IN ret = count_history[first]

\* a tie in a full buffer whose oldest slot holds a tied value other than
\* the one returned: oldest-first order would have answered differently
C3_Witness ==
    /\ calls >= 5
    /\ Cardinality(Modes(count_history)) >= 2
    /\ count_history[history_index + 1] \in Modes(count_history)
    /\ count_history[history_index + 1] # ret
    /\ ret = count_history[1]

\* C4: once the same count N has been fed for 5 consecutive calls, from
\* whatever buffer contents and cursor, the last of them returns N.
C4_FiveInARow == run = 5 => ret = raw_count

\* five 2s fed after three other calls: the run started mid-buffer
C4_Witness ==
    /\ run = 5
    /\ raw_count = 2
    /\ history_index = 3
    /\ calls = MaxCalls

\* C5: right after reset() the history buffer holds no raw count from
\* before the reset.
C5_ResetClearsHistory ==
    op = "reset" => \A i \in 1..5 : count_history[i] = 0

\* C6: detect_hand on a frame whose mask has no qualifying contour finds no
\* hand contour and reports count 0, no fingertips, no centre and no ROI,
\* whatever the history buffer holds.
C6_NoContourReportsZero ==
    (op = "detect_hand" /\ ~arg.qualifying) =>
        /\ hand_contour = None
        /\ finger_count = 0
        /\ finger_tips = <<>>
        /\ hand_center = None
        /\ roi = None

\* no hand in the last frame, count 0, though the buffer votes for 5
C6_Witness ==
    /\ op = "detect_hand"
    /\ ~arg.qualifying
    /\ finger_count = 0
    /\ finger_tips = <<>>
    /\ Modes(count_history) = {5}

\* C7: for a contour with fewer than 5 points _get_defects_and_hull returns
\* (None, None) and _find_fingertips returns ([], 0).
C7_FewPoints ==
    (op = "_find_fingertips" /\ arg.contour.some /\ Len(arg.contour.val.pts) < 5) =>
        /\ GetDefectsAndHull(arg.contour) = [defects |-> None, hull |-> None]
        /\ finger_tips = <<>>
        /\ raw_count = 0

\* a four-point contour with area, defects and fingertip candidates
C7_Witness ==
    /\ op = "_find_fingertips"
    /\ arg.contour.some
    /\ Len(arg.contour.val.pts) = 4
    /\ A00(arg.contour.val.pts) # 0
    /\ arg.contour.val.cvDefects.result.some
    /\ Len(Candidates(arg.contour.val.pts, frame_shape)) >= 2
    /\ raw_count = 0

\* C8: for a contour with at least 5 points and non-zero area whose defect
\* computation fails or finds no defect, the fingertip list and raw count
\* are those of the hull/distance heuristic.
C8_DefectFailureKeepsHeuristic ==
    (/\ op = "_find_fingertips"
     /\ arg.contour.some
     /\ Len(arg.contour.val.pts) >= 5
     /\ A00(arg.contour.val.pts) # 0
     /\ ~arg.contour.val.cvDefects.result.some) =>
        LET pts == arg.contour.val.pts
            heuristic == CapFingertips(Candidates(pts, frame_shape), Centroid(pts))
        IN finger_tips = heuristic /\ raw_count = Len(heuristic)

\* the result is None iff no contour of the mask survives (survivors: their
\* indices), and else a survivor of maximal area
LargestAmong(result, contours, survivors) ==
    /\ result.some <=> survivors # {}
    /\ result.some =>
        \E i \in survivors :
            /\ result.val = contours[i]
            /\ \A j \in survivors :
                   contourArea2(contours[j].pts) <= contourArea2(contours[i].pts)

\* C9 as stated: exactly the contours of area below 5000 are discarded (one
\* of area 5000 survives); the result is a survivor of maximal area, None
\* iff there is no survivor.
C9_AreaAtLeastSurvives ==
    op = "_get_largest_contour" =>
        LargestAmong(hand_contour, arg.contours,
                     {i \in 1..Len(arg.contours) :
                         contourArea2(arg.contours[i].pts) >= 2 * 5000})

\* C9 amended: exactly the contours of area at most 5000 are discarded (one
\* of area 5000 is discarded); the result is a survivor of maximal area,
\* None iff there is no survivor.
C9_AreaAboveSurvives ==
    op = "_get_largest_contour" =>
        LargestAmong(hand_contour, arg.contours,
                     {i \in 1..Len(arg.contours) :
                         contourArea2(arg.contours[i].pts) > 2 * 5000})

\* a mask of two contours, the first of area exactly 5000: the second,
\* larger one is returned
C9_Witness ==
    /\ op = "_get_largest_contour"
    /\ Len(arg.contours) = 2
    /\ contourArea2(arg.contours[1].pts) = 2 * 5000
    /\ contourArea2(arg.contours[2].pts) > 2 * 5000
    /\ hand_contour = Some(arg.contours[2])

\* C10: the fingertip list never holds the same coordinate twice.
C10_NoDuplicateTips ==
    \A i, j \in 1..Len(finger_tips) : i # j => finger_tips[i] # finger_tips[j]

\* the farthest thumb candidate is also an above-centre candidate, and is
\* in the list once
C10_Witness ==
    /\ op = "_find_fingertips"
    /\ arg.contour.some
    /\ raw_count > 0
    /\ LET pts == arg.contour.val.pts
           center == Centroid(pts)
           hull_points == convexHullPoints(pts)
           above == AboveCenterTips(hull_points, center, frame_shape)
           thumbs == ThumbCandidates(hull_points, center, boundingRect(pts)[3], frame_shape)
       IN /\ thumbs # <<>>
          /\ SortByDistDesc(thumbs, center)[1] \in Range(above)
          /\ Cardinality({i \in 1..Len(finger_tips) :
                             finger_tips[i] = SortByDistDesc(thumbs, center)[1]}) = 1

\* C11: a failing frame leaves no trace on later frames: from any state of
\* the detector, the frame g processed right after a failing frame f yields
\* the same fingertip list, hand centre and reported finger count as g
\* processed without f before it.
C11_FailureLeavesNoTrace ==
    \A f \in FailingFrames, g \in Frames :
        LET after == DetectStep(DetectStep(DetectorState, f), g)
            without == DetectStep(DetectorState, g)
        IN /\ after.finger_tips = without.finger_tips
           /\ after.hand_center = without.hand_center
           /\ after.finger_count = without.finger_count

\* the fingertip list is the above-centre list plus the farthest point of
\* thumbs (the first such in hull order) unless that point is in it already;
\* stated for lists short enough for the cap at 5 not to apply
ThumbAdded(tips, above, thumbs, hull_points, center) ==
    Len(above) < 5 =>
        IF thumbs = {} THEN tips = above
        ELSE \E i \in 1..Len(hull_points) :
                /\ hull_points[i] \in thumbs
                /\ \A q \in thumbs : Dist2(q, center) <= Dist2(hull_points[i], center)
                /\ \A j \in 1..(i - 1) :
                       hull_points[j] \in thumbs =>
                           Dist2(hull_points[j], center) < Dist2(hull_points[i], center)
                /\ tips = IF hull_points[i] \in Range(above) THEN above
                          ELSE Append(above, hull_points[i])

\* C12 as stated: the thumb candidates are exactly the hull vertices whose
\* horizontal offset from the centre exceeds 25% of the bounding-box width;
\* if there is one, the farthest of them, and no other, is added to the
\* fingertip list unless it is already there.
C12_ThumbByOffset ==
    (op = "_find_fingertips" /\ hand_center.some) =>
        LET pts == arg.contour.val.pts
            center == Centroid(pts)
            w == boundingRect(pts)[3]
            hull_points == convexHullPoints(pts)
            thumbs == {p \in Range(hull_points) : 4 * Abs(p[1] - center[1]) > w}
        IN /\ Range(ThumbCandidates(hull_points, center, w, frame_shape)) = thumbs
           /\ ThumbAdded(finger_tips, AboveCenterTips(hull_points, center, frame_shape),
                         thumbs, hull_points, center)

\* C12 amended: the thumb candidates are exactly the hull vertices whose
\* horizontal offset from the centre exceeds 25% of the bounding-box width
\* and whose distance from the centre exceeds 5% of the frame diagonal; if
\* there is one, the farthest of them, and no other, is added to the
\* fingertip list unless it is already there.
C12_ThumbByOffsetAndDistance ==
    (op = "_find_fingertips" /\ hand_center.some) =>
        LET pts == arg.contour.val.pts
            center == Centroid(pts)
            w == boundingRect(pts)[3]
            hull_points == convexHullPoints(pts)
            thumbs == {p \in Range(hull_points) :
                          /\ 4 * Abs(p[1] - center[1]) > w
                          /\ 400 * Dist2(p, center) >
                                 FRAME_HEIGHT * FRAME_HEIGHT + FRAME_WIDTH * FRAME_WIDTH}
        IN /\ Range(ThumbCandidates(hull_points, center, w, frame_shape)) = thumbs
           /\ ThumbAdded(finger_tips, AboveCenterTips(hull_points, center, frame_shape),
                         thumbs, hull_points, center)

\* several thumb candidates, the farthest of them below the centre: it is
\* the one point added after the above-centre points
C12_Witness ==
    /\ op = "_find_fingertips"
    /\ hand_center.some
    /\ LET pts == arg.contour.val.pts
           center == Centroid(pts)
           hull_points == convexHullPoints(pts)
           above == AboveCenterTips(hull_points, center, frame_shape)
           thumbs == ThumbCandidates(hull_points, center, boundingRect(pts)[3], frame_shape)
       IN /\ Len(thumbs) >= 2
          /\ Len(above) >= 1
          /\ Len(finger_tips) = Len(above) + 1
          /\ finger_tips[Len(finger_tips)][2] >= center[2]
          /\ finger_tips[Len(finger_tips)] \in Range(thumbs)

\* C13: after every detect_hand call hand_center is None or the centroid,
\* and roi None or the bounding box, of the contour found in that same
\* frame, never a value left over from an earlier frame.
C13_CenterOfThisFrame ==
    op = "detect_hand" =>
        /\ hand_center.some =>
               /\ hand_contour.some
               /\ A00(hand_contour.val.pts) # 0
               /\ hand_center.val = Centroid(hand_contour.val.pts)
        /\ roi.some =>
               /\ hand_contour.some
               /\ roi.val = boundingRect(hand_contour.val.pts)

\* C14: a detect_hand call on a frame with no qualifying contour leaves
\* count_history and history_index unchanged; the next call that finds a
\* hand writes its raw count into the slot under the cursor of the buffer as
\* it was before the gap, and the count reported for a frame with a hand is
\* one of maximal frequency in that buffer.
C14_NoHandBypassesStabilizer ==
    /\ []((op = "detect_hand" /\ arg.qualifying) => finger_count \in Modes(count_history))
    /\ [][/\ (op' = "detect_hand" /\ ~arg'.qualifying) =>
                 /\ count_history' = count_history
                 /\ history_index' = history_index
          /\ (/\ op = "detect_hand" /\ ~arg.qualifying
              /\ op' = "detect_hand" /\ arg'.qualifying) =>
                 \A i \in 1..5 :
                     count_history'[i] = IF i = history_index + 1 THEN raw_count'
                                         ELSE count_history[i]
         ]_vars

\* a frame without a hand after three frames of the open hand: count 0 is
\* reported while the buffer still holds the three 5s
C14_Witness ==
    /\ op = "detect_hand"
    /\ ~arg.qualifying
    /\ finger_count = 0
    /\ log = <<5, 5, 5>>
    /\ count_history = <<5, 5, 5, 0, 0>>
    /\ history_index = 3

\* C15: count_fingers of the OpenCVHandDetector returns 0 whenever the most
\* recent find_hand call found no hand region, and otherwise a value in 0..5
\* derived from the finger valleys of the most recent frame's contour.
C15_CountOfLastFrame ==
    op = "count_fingers" =>
        IF ocv.hand_region.some
        THEN LET valleys == FingersOf(ocv.biggest_contour.val)
             IN /\ out.val \in 0..5
                /\ out.val = IF valleys = <<>> THEN 0
                             ELSE IF Len(valleys) + 1 < 5 THEN Len(valleys) + 1 ELSE 5
        ELSE out.val = 0

\* C16: for a landmark list that is empty or holds all 21 ids,
\* utils.count_fingers returns an integer in 0..5 equal to the number of
\* fingers get_finger_status reports as up for the same list; for the empty
\* list it returns 0 and get_finger_status reports all five fingers down.
C16_CountMatchesStatus ==
    op = "utils.get_finger_status" =>
        LET up == {f \in {"thumb", "index", "middle", "ring", "pinky"} :
                      out.val.finger_status[f]}
        IN /\ out.val.finger_count \in 0..5
           /\ out.val.finger_count = Cardinality(up)
           /\ arg.landmarks = <<>> => (out.val.finger_count = 0 /\ up = {})

\* a full landmark list with thumb, index and ring up, middle and pinky
\* down: count 3
C16_Witness ==
    /\ op = "utils.get_finger_status"
    /\ Len(arg.landmarks) = 21
    /\ out.val.finger_count = 3
    /\ out.val.finger_status = [thumb |-> TRUE, index |-> TRUE, middle |-> FALSE,
                                ring |-> TRUE, pinky |-> FALSE]

====
